---- MODULE Spec2Model ----
(***************************************************************************)
(* Model of ParallelProcessing (scripts/jobs/main_parallel.py): a bounded  *)
(* job dispatcher built on multiprocessing.Pool / ThreadPool with a        *)
(* manager-held admission counter (_queue), a result mapping (resp_dict)   *)
(* and a gate lock (par_lock) installed by the pool initializer.           *)
(*                                                                         *)
(* Granularity: every access to a manager proxy (_queue.value get, set)    *)
(* is one atomic step; `x.value += 1` and `x.value -= 1` are a get         *)
(* followed by a set.  The pool is modelled by its task queue, the jobs    *)
(* its workers are running, the failures travelling back to the result     *)
(* handler thread and the cache of jobs that have not succeeded yet.       *)
(* Pool workers are interchangeable, so a running job stands for the       *)
(* worker that runs it.                                                    *)
(***************************************************************************)
EXTENDS Integers, Sequences, FiniteSets, Bags, TLC

\* ---- bounds of the model ------------------------------------------------
MaxJobs == 4        \* longest args_list explored
CpuCount == 2       \* value returned by cpu_count() on the modelled host

\* n_jobs arguments explored: automatic (-1) and explicit values below the
\* core count
NJobsArgs == -1 .. (CpuCount - 1)
JobIds == 1 .. MaxJobs

VARIABLES
    n_jobs_arg,         \* the n_jobs argument given to __init__
    n_jobs,             \* self._n_jobs after __init__
    use_multithreading, \* argument of run
    args_list,          \* argument of run: sequence of argument tuples
    process_impl,       \* TRUE iff the subclass overrides process
    crit_impl,          \* TRUE iff the subclass overrides critical_section
    pc,                 \* position of the control thread inside run
    idx,                \* position in args_list of the job being admitted
    tmp,                \* value read by the control thread for `+= 1`
    queue,              \* self._queue.value
    resp_dict,          \* keys written to the manager dict
    tasks,              \* pool task queue: submitted, not yet picked up
    cache,              \* pool._cache: submitted jobs without a success yet
    outqueue,           \* jobs whose exception is on its way to the host
    running,            \* job on a pool worker |-> where its _execute is
    par_lock,           \* the module global par_lock in the pool workers
    lock_owner,         \* job holding the gate Lock() (0 = free)
    gate_result,        \* how the last call of _enter_crit_sec ended
    calls,              \* bag of argument tuples process was invoked with
    errlog,             \* jobs whose error was logged by _error_callback
    exited,             \* TRUE once os._exit(1) ended the host process
    ret                 \* what run returned

vars == << n_jobs_arg, n_jobs, use_multithreading, args_list, process_impl,
           crit_impl, pc, idx, tmp, queue, resp_dict, tasks, cache, outqueue,
           running, par_lock, lock_owner, gate_result, calls, errlog, exited,
           ret >>

config == << n_jobs_arg, n_jobs, use_multithreading, args_list, process_impl,
             crit_impl >>

\* ---- __init__ -------------------------------------------------------------
\* line 68: self._n_jobs = n_jobs if n_jobs >= 0 else cpu_count()
ResolveNJobs(n) == IF n >= 0 THEN n ELSE CpuCount

\* args_list of length k: the job at position i has the argument tuple <<i>>
ArgsOfLen(k) == [i \in 1 .. k |-> << i >>]

\* run has not returned / raised an exception / returned a mapping
NoReturn == [kind |-> "none", map |-> {}]
Raised(e) == [kind |-> e, map |-> {}]
Returned(m) == [kind |-> "mapping", map |-> m]

\* no job is on a pool worker
NoneRunning == [j \in {} |-> [st |-> "process", val |-> 0]]

Init ==
    /\ n_jobs_arg \in NJobsArgs
    /\ n_jobs = ResolveNJobs(n_jobs_arg)
    /\ use_multithreading \in BOOLEAN
    /\ args_list \in {ArgsOfLen(k) : k \in 0 .. MaxJobs}
    /\ process_impl \in BOOLEAN
    /\ crit_impl \in BOOLEAN
    /\ pc = "start"
    /\ idx = 0
    /\ tmp = 0
    /\ queue = 0
    /\ resp_dict = {}
    /\ tasks = << >>
    /\ cache = {}
    /\ outqueue = {}
    /\ running = NoneRunning
    /\ par_lock = "undefined"
    /\ lock_owner = 0
    /\ gate_result = "none"
    /\ calls = EmptyBag
    /\ errlog = {}
    /\ exited = FALSE
    /\ ret = NoReturn

\* ---- helpers --------------------------------------------------------------
\* variant: a pool created with one worker more than self._n_jobs
PoolSizeOversized(n) == n + 1

\* Pool(processes=self._n_jobs): the pool has that many workers
PoolSize(n) == n

\* what the module global par_lock is in a worker once the pool is up:
\* Pool gets initializer=self.init_child, ThreadPool gets no initializer
InstalledLock(threads) == IF threads THEN "undefined" ELSE "lock"

\* os._exit(1) ends the host process: the control thread, the pool's handler
\* threads and, for a ThreadPool, the worker threads.  The workers of a
\* process Pool are separate processes and outlive their parent.
MainAlive == ~exited
WorkerAlive == ~exited \/ ~use_multithreading

\* variant: an admission test that is off by one
AdmitStrict(q, n) == q < n - 1

\* line 153: the admission test
Admit(q, n) == q < n

\* variant: the job is submitted without the trailing result sink
RespArgsBare(args) == args

\* line 156: resp_args = args + (resp_dict,)
RespArgs(args) == Append(args, "resp_dict")

\* jobs on a pool worker whose _execute has not ended
Active == {j \in DOMAIN running : running[j].st # "dead"}
\* jobs handed to apply_async whose _execute has not finished
InFlight == {tasks[i].job : i \in 1 .. Len(tasks)} \cup Active
\* jobs whose process call is running on a pool worker
Executing == {j \in DOMAIN running : running[j].st \in {"process", "crit"}}

\* line 150: `with lock:` spans the whole submission loop of lines 151-162
LoopLockHeld == pc \in {"test", "inc_get", "inc_set", "submit", "sleep"}

\* ---- run: the control thread ------------------------------------------------
\* lines 135-151 with the counter and the sink created once, when the object
\* is constructed, instead of at lines 137-138 of every call
RunStartKeepsState ==
    /\ pc = "start"
    /\ queue' = queue
    /\ resp_dict' = resp_dict
    /\ IF PoolSize(n_jobs) < 1
         THEN \* Pool.__init__ raises ValueError("Number of processes must be
              \* at least 1"); run propagates it
              /\ pc' = "raised"
              /\ ret' = Raised("ValueError")
              /\ UNCHANGED << par_lock, idx >>
         ELSE /\ par_lock' = InstalledLock(use_multithreading)
              /\ pc' = IF Len(args_list) = 0 THEN "close" ELSE "test"
              /\ idx' = IF Len(args_list) = 0 THEN 0 ELSE 1
              /\ ret' = ret
    /\ UNCHANGED << config, tmp, tasks, cache, outqueue, running, lock_owner,
                    gate_result, calls, errlog, exited >>

\* lines 135-151: manager objects, the pool, entry into the submission loop
RunStart ==
    /\ pc = "start"
    /\ queue' = 0
    /\ resp_dict' = {}
    /\ IF PoolSize(n_jobs) < 1
         THEN \* Pool.__init__ raises ValueError("Number of processes must be
              \* at least 1"); run propagates it
              /\ pc' = "raised"
              /\ ret' = Raised("ValueError")
              /\ UNCHANGED << par_lock, idx >>
         ELSE /\ par_lock' = InstalledLock(use_multithreading)
              /\ pc' = IF Len(args_list) = 0 THEN "close" ELSE "test"
              /\ idx' = IF Len(args_list) = 0 THEN 0 ELSE 1
              /\ ret' = ret
    /\ UNCHANGED << config, tmp, tasks, cache, outqueue, running, lock_owner,
                    gate_result, calls, errlog, exited >>

\* line 153: if self._queue.value < self._n_jobs
Test ==
    /\ MainAlive
    /\ pc = "test"
    /\ pc' = IF Admit(queue, n_jobs) THEN "inc_get" ELSE "sleep"
    /\ UNCHANGED << config, idx, tmp, queue, resp_dict, tasks, cache,
                    outqueue, running, par_lock, lock_owner, gate_result,
                    calls, errlog, exited, ret >>

\* line 154, first half of `self._queue.value += 1`: the proxy get
IncGet ==
    /\ MainAlive
    /\ pc = "inc_get"
    /\ tmp' = queue
    /\ pc' = "inc_set"
    /\ UNCHANGED << config, idx, queue, resp_dict, tasks, cache, outqueue,
                    running, par_lock, lock_owner, gate_result, calls, errlog,
                    exited, ret >>

\* line 154, second half of `self._queue.value += 1`: the proxy set
IncSet ==
    /\ MainAlive
    /\ pc = "inc_set"
    /\ queue' = tmp + 1
    /\ pc' = "submit"
    /\ UNCHANGED << config, idx, tmp, resp_dict, tasks, cache, outqueue,
                    running, par_lock, lock_owner, gate_result, calls, errlog,
                    exited, ret >>

\* lines 156-159: apply_async of _execute with resp_args, then break
Submit ==
    /\ MainAlive
    /\ pc = "submit"
    /\ tasks' = Append(tasks, [job |-> idx, args |-> RespArgs(args_list[idx])])
    /\ cache' = cache \cup {idx}
    /\ IF idx < Len(args_list)
         THEN /\ idx' = idx + 1
              /\ pc' = "test"
         ELSE /\ idx' = idx
              /\ pc' = "close"
    /\ UNCHANGED << config, tmp, queue, resp_dict, outqueue, running, par_lock,
                    lock_owner, gate_result, calls, errlog, exited, ret >>

\* lines 161-162 without the enclosing `while True`: a full pool makes the
\* for loop move on to the next element of args_list
SleepSkipsJob ==
    /\ MainAlive
    /\ pc = "sleep"
    /\ IF idx < Len(args_list)
         THEN /\ idx' = idx + 1
              /\ pc' = "test"
         ELSE /\ idx' = idx
              /\ pc' = "close"
    /\ UNCHANGED << config, tmp, queue, resp_dict, tasks, cache, outqueue,
                    running, par_lock, lock_owner, gate_result, calls,
                    errlog, exited, ret >>

\* lines 161-162: pool full, time.sleep(self._waiting_time), poll again
Sleep ==
    /\ MainAlive
    /\ pc = "sleep"
    /\ pc' = "test"
    /\ UNCHANGED << config, idx, tmp, queue, resp_dict, tasks, cache,
                    outqueue, running, par_lock, lock_owner, gate_result,
                    calls, errlog, exited, ret >>

\* line 164: pool.close()
Close ==
    /\ MainAlive
    /\ pc = "close"
    /\ pc' = "join"
    /\ UNCHANGED << config, idx, tmp, queue, resp_dict, tasks, cache,
                    outqueue, running, par_lock, lock_owner, gate_result,
                    calls, errlog, exited, ret >>

\* variant: run returns without waiting for the pool to drain
JoinDoneEarly(c) == TRUE

\* pool.join() returns once no submitted job is left in the cache
JoinDone(c) == c = {}

\* lines 165-169: pool.join(), then return resp_dict
Join ==
    /\ MainAlive
    /\ pc = "join"
    /\ JoinDone(cache)
    /\ pc' = "returned"
    /\ ret' = Returned(resp_dict)
    /\ UNCHANGED << config, idx, tmp, queue, resp_dict, tasks, cache,
                    outqueue, running, par_lock, lock_owner, gate_result,
                    calls, errlog, exited >>

\* ---- the pool workers ---------------------------------------------------------
\* The job logic modelled: process either returns after writing its entry,
\* or raises, or calls the gate once and returns with its result.

\* line 124 called again on the same object after an earlier call returned
\* (line 169): new arguments, the workers of the closed and joined pool are
\* gone, while self._queue still refers to the earlier call's counter until
\* line 138 rebinds it
RunAgain ==
    /\ MainAlive
    /\ pc = "returned"
    /\ pc' = "start"
    /\ \E k \in 0 .. MaxJobs : args_list' = ArgsOfLen(k)
    /\ use_multithreading' \in BOOLEAN
    /\ idx' = 0
    /\ tmp' = 0
    /\ par_lock' = "undefined"
    /\ gate_result' = "none"
    /\ calls' = EmptyBag
    /\ ret' = NoReturn
    /\ UNCHANGED << n_jobs_arg, n_jobs, process_impl, crit_impl, queue,
                    resp_dict, tasks, cache, outqueue, running, lock_owner,
                    errlog, exited >>

Without(j) == [k \in DOMAIN running \ {j} |-> running[k]]

\* _execute of job j has returned (ok) or raised and the pool worker sends
\* the outcome to the host process, then waits for the next task.  A
\* success is taken by the result handler thread without any callback: the
\* job leaves the pool's cache.  A failure waits for HandleFailure.  A
\* worker process that finds the host process gone fails on the broken
\* pipe and ends.
SendResult(j, ok) ==
    IF exited
      THEN /\ running' = [running EXCEPT ![j] = [st |-> "dead", val |-> 0]]
           /\ UNCHANGED << cache, outqueue >>
      ELSE /\ running' = Without(j)
           /\ cache' = IF ok THEN cache \ {j} ELSE cache
           /\ outqueue' = IF ok THEN outqueue ELSE outqueue \cup {j}

\* a free pool worker takes the next task and calls _execute(*resp_args),
\* which calls self.process(*args) (line 93)
WorkerStart ==
    /\ WorkerAlive
    /\ tasks # << >>
    /\ Cardinality(DOMAIN running) < PoolSize(n_jobs)
    /\ running' = [k \in DOMAIN running \cup {Head(tasks).job} |->
                     IF k = Head(tasks).job
                       THEN [st |-> "process", val |-> 0]
                       ELSE running[k]]
    /\ calls' = calls (+) SetToBag({Head(tasks).args})
    /\ tasks' = Tail(tasks)
    /\ UNCHANGED << config, pc, idx, tmp, queue, resp_dict, cache, outqueue,
                    par_lock, lock_owner, gate_result, errlog, exited, ret >>

\* line 93: an overriding process writes its entry to the sink and returns
ProcessReturn(j) ==
    /\ WorkerAlive
    /\ j \in DOMAIN running
    /\ running[j].st = "process"
    /\ process_impl
    /\ resp_dict' = resp_dict \cup {j}
    /\ running' = [running EXCEPT ![j].st = "dec_get"]
    /\ UNCHANGED << config, pc, idx, tmp, queue, tasks, cache, outqueue,
                    par_lock, lock_owner, gate_result, calls, errlog, exited,
                    ret >>

\* line 93 raises: the base process raises NotImplementedError (line 82), an
\* overriding one may raise anything.  Line 94 is skipped.
ProcessRaise(j) ==
    /\ WorkerAlive
    /\ j \in DOMAIN running
    /\ running[j].st = "process"
    /\ SendResult(j, FALSE)
    /\ UNCHANGED << config, pc, idx, tmp, queue, resp_dict, tasks, par_lock,
                    lock_owner, gate_result, calls, errlog, exited, ret >>

\* line 113 where the global par_lock was never assigned: NameError, which
\* leaves process and _execute as any other exception
GateNameError(j) ==
    /\ WorkerAlive
    /\ j \in DOMAIN running
    /\ running[j].st = "process"
    /\ process_impl
    /\ par_lock = "undefined"
    /\ SendResult(j, FALSE)
    /\ UNCHANGED << config, pc, idx, tmp, queue, resp_dict, tasks, par_lock,
                    lock_owner, gate_result, calls, errlog, exited, ret >>

\* variant: the gate runs critical_section without taking the lock
CanAcquireAlways(owner) == TRUE

\* `with par_lock:` may be entered when nobody holds the lock
CanAcquire(owner) == owner = 0

\* lines 112-113: the job logic calls _enter_crit_sec and acquires par_lock
GateEnter(j) ==
    /\ WorkerAlive
    /\ j \in DOMAIN running
    /\ running[j].st = "process"
    /\ process_impl
    /\ par_lock = "lock"
    /\ CanAcquire(lock_owner)
    /\ lock_owner' = j
    /\ running' = [running EXCEPT ![j].st = "crit"]
    /\ UNCHANGED << config, pc, idx, tmp, queue, resp_dict, tasks, cache,
                    outqueue, par_lock, gate_result, calls, errlog, exited,
                    ret >>

\* lines 113-116 with acquire() and release() written out and no finally: a
\* raising critical_section leaves the lock with the job that took it
GateExitNoFinally(j) ==
    /\ WorkerAlive
    /\ j \in DOMAIN running
    /\ running[j].st = "crit"
    /\ lock_owner' = IF crit_impl THEN 0 ELSE j
    /\ gate_result' = IF crit_impl THEN "returned" ELSE "raised"
    /\ IF crit_impl
         THEN /\ resp_dict' = resp_dict \cup {j}
              /\ running' = [running EXCEPT ![j].st = "dec_get"]
              /\ UNCHANGED << cache, outqueue >>
         ELSE /\ SendResult(j, FALSE)
              /\ resp_dict' = resp_dict
    /\ UNCHANGED << config, pc, idx, tmp, queue, tasks, par_lock, calls,
                    errlog, exited, ret >>

\* lines 115-116: leaving the with block releases par_lock.  An overriding
\* critical_section returns, the gate returns its result, process writes it
\* to the sink and returns; the base one raises NotImplementedError (line
\* 119), which leaves the gate, process and _execute.
GateExit(j) ==
    /\ WorkerAlive
    /\ j \in DOMAIN running
    /\ running[j].st = "crit"
    /\ lock_owner' = 0
    /\ gate_result' = IF crit_impl THEN "returned" ELSE "raised"
    /\ IF crit_impl
         THEN /\ resp_dict' = resp_dict \cup {j}
              /\ running' = [running EXCEPT ![j].st = "dec_get"]
              /\ UNCHANGED << cache, outqueue >>
         ELSE /\ SendResult(j, FALSE)
              /\ resp_dict' = resp_dict
    /\ UNCHANGED << config, pc, idx, tmp, queue, tasks, par_lock, calls,
                    errlog, exited, ret >>

\* line 94 wrapped in the lock of line 136, which the control thread holds
\* from line 150 until the submission loop is left
DecGetUnderLoopLock(j) ==
    /\ WorkerAlive
    /\ ~LoopLockHeld
    /\ j \in DOMAIN running
    /\ running[j].st = "dec_get"
    /\ running' = [running EXCEPT ![j] = [st |-> "dec_set", val |-> queue]]
    /\ UNCHANGED << config, pc, idx, tmp, queue, resp_dict, tasks, cache,
                    outqueue, par_lock, lock_owner, gate_result, calls,
                    errlog, exited, ret >>

\* line 94, first half of `self._queue.value -= 1`: the proxy get
DecGet(j) ==
    /\ WorkerAlive
    /\ j \in DOMAIN running
    /\ running[j].st = "dec_get"
    /\ running' = [running EXCEPT ![j] = [st |-> "dec_set", val |-> queue]]
    /\ UNCHANGED << config, pc, idx, tmp, queue, resp_dict, tasks, cache,
                    outqueue, par_lock, lock_owner, gate_result, calls,
                    errlog, exited, ret >>

\* _execute returning after the read, without the write of line 94
DecSetNoWrite(j) ==
    /\ WorkerAlive
    /\ j \in DOMAIN running
    /\ running[j].st = "dec_set"
    /\ queue' = queue
    /\ SendResult(j, TRUE)
    /\ UNCHANGED << config, pc, idx, tmp, resp_dict, tasks, par_lock,
                    lock_owner, gate_result, calls, errlog, exited, ret >>

\* line 94, second half of `self._queue.value -= 1`: the proxy set; then
\* _execute returns
DecSet(j) ==
    /\ WorkerAlive
    /\ j \in DOMAIN running
    /\ running[j].st = "dec_set"
    /\ queue' = running[j].val - 1
    /\ SendResult(j, TRUE)
    /\ UNCHANGED << config, pc, idx, tmp, resp_dict, tasks, par_lock,
                    lock_owner, gate_result, calls, errlog, exited, ret >>

\* ---- the pool's result handler thread -----------------------------------------
\* line 105 alone: the exception is logged and the host process lives on
ErrorCallbackLogOnly(j) ==
    /\ errlog' = errlog \cup {j}
    /\ exited' = exited

\* lines 105-106: _error_callback logs the exception and calls os._exit(1)
ErrorCallback(j) ==
    /\ errlog' = errlog \cup {j}
    /\ exited' = TRUE

\* the exception of a job reaches the host process, which runs the
\* error_callback given at line 157
HandleFailure ==
    /\ MainAlive
    /\ \E j \in outqueue :
         /\ outqueue' = outqueue \ {j}
         /\ ErrorCallback(j)
    /\ UNCHANGED << config, pc, idx, tmp, queue, resp_dict, tasks, cache,
                    running, par_lock, lock_owner, gate_result, calls, ret >>

Next ==
    \/ RunStart
    \/ Test
    \/ IncGet
    \/ IncSet
    \/ Submit
    \/ Sleep
    \/ Close
    \/ Join
    \/ RunAgain
    \/ HandleFailure
    \/ WorkerStart
    \/ \E j \in JobIds : ProcessReturn(j)
    \/ \E j \in JobIds : ProcessRaise(j)
    \/ \E j \in JobIds : GateNameError(j)
    \/ \E j \in JobIds : GateEnter(j)
    \/ \E j \in JobIds : GateExit(j)
    \/ \E j \in JobIds : DecGet(j)
    \/ \E j \in JobIds : DecSet(j)

Spec == Init /\ [][Next]_vars

\* ---- runs in which the job logic always returns normally ----------------------
\* (process and critical_section overridden, nothing raises, the gate is only
\* called where par_lock is installed), scheduled fairly
InitLive ==
    /\ Init
    /\ n_jobs >= 1
    /\ process_impl
    /\ crit_impl

Control ==
    RunStart \/ Test \/ IncGet \/ IncSet \/ Submit \/ Sleep \/ Close \/ Join

PoolStep ==
    \/ WorkerStart
    \/ \E j \in JobIds : ProcessReturn(j)
    \/ \E j \in JobIds : GateEnter(j)
    \/ \E j \in JobIds : GateExit(j)
    \/ \E j \in JobIds : DecGet(j)
    \/ \E j \in JobIds : DecSet(j)

NextLive ==
    \/ RunStart
    \/ Test
    \/ IncGet
    \/ IncSet
    \/ Submit
    \/ Sleep
    \/ Close
    \/ Join
    \/ WorkerStart
    \/ \E j \in JobIds : ProcessReturn(j)
    \/ \E j \in JobIds : GateEnter(j)
    \/ \E j \in JobIds : GateExit(j)
    \/ \E j \in JobIds : DecGet(j)
    \/ \E j \in JobIds : DecSet(j)

\* the control thread keeps being scheduled, and so does the pool as long as
\* one of its workers can take a step
Fairness ==
    /\ WF_vars(Control)
    /\ WF_vars(PoolStep)

SpecLive == InitLive /\ [][NextLive]_vars /\ Fairness

\* ---- runs of an object that leaves an extension point unimplemented ---------
\* (process of lines 73-82 or critical_section of lines 118-119 not
\* overridden), scheduled fairly: the control thread, the pool workers and
\* the pool's result handler thread each keep being scheduled
InitUnimpl ==
    /\ Init
    /\ ~process_impl \/ ~crit_impl

PoolStepAny ==
    \/ PoolStep
    \/ \E j \in JobIds : ProcessRaise(j)
    \/ \E j \in JobIds : GateNameError(j)

FairnessAbort ==
    /\ WF_vars(Control)
    /\ WF_vars(PoolStepAny)
    /\ WF_vars(HandleFailure)

SpecUnimpl == InitUnimpl /\ [][Next]_vars /\ FairnessAbort

\* ---- observations used by the properties --------------------------------------
Positions == 1 .. Len(args_list)
\* number of times process was invoked for position i with args + (resp_dict,)
Invocations(i) == CopiesIn(Append(args_list[i], "resp_dict"), calls)
\* some job has raised (its failure is on its way or has been handled)
SomeJobRaised == errlog # {} \/ outqueue # {}
InGate == {j \in DOMAIN running : running[j].st = "crit"}

\* jobs handed to the pool (line 157) whose process call (line 93) has not
\* returned or raised yet
AwaitingProcess == {tasks[i].job : i \in 1 .. Len(tasks)} \cup Executing

\* ---- properties -----------------------------------------------------------------

\* C1: with workerLimit >= 1, the number of jobs handed to apply_async that
\* have not finished _execute never exceeds workerLimit.
C1_InFlightBound == n_jobs >= 1 => Cardinality(InFlight) <= n_jobs

\* C2: when run has drained the pool and returned (all jobs returned
\* normally), the admission counter is 0.
C2_SlotConservation == pc = "returned" => queue = 0

\* C3: the admission counter always lies in [0, workerLimit].
C3_CounterRange == 0 <= queue /\ queue <= n_jobs

\* C4: the number of jobs whose process call is executing on a pool worker
\* never exceeds workerLimit, and workerLimit is the host's core count when
\* the configured value is negative.
C4_ExecutingBound ==
    /\ n_jobs_arg < 0 => n_jobs = CpuCount
    /\ Cardinality(Executing) <= n_jobs

\* C4 witness: automatic worker limit, every pool worker is executing a job
\* while a further admitted job waits in the pool's task queue
C4_Witness ==
    /\ n_jobs_arg < 0
    /\ Cardinality(Executing) = n_jobs
    /\ tasks # << >>

\* C5: with workerLimit >= 1 and job logic that always returns, under fair
\* scheduling every job is eventually started and run eventually returns.
C5_Progress ==
    <>(pc = "returned" /\ \A i \in Positions : Invocations(i) >= 1)

\* C5 witness: run returned for the longest job sequence although counter
\* updates were lost on the way (the counter did not come back to 0)
C5_Witness ==
    /\ pc = "returned"
    /\ Len(args_list) = MaxJobs
    /\ queue # 0

C7_DrainComplete ==
    pc = "returned" =>
        /\ InFlight = {}
        /\ cache = {}
        /\ \A i \in Positions : Invocations(i) >= 1
        /\ ret = Returned(resp_dict)
        /\ ret.map = Positions

\* C7 witness: the control thread is blocked in pool.join() while a job is
\* still executing and another has finished
C7_Witness ==
    /\ pc = "join"
    /\ Executing # {}
    /\ resp_dict # {}

\* C8: once a job has raised, run never returns; the error callback that logs
\* the error also ends the process; after the abort neither the control
\* thread nor any worker takes a step.
C8_FailFast ==
    /\ [](SomeJobRaised => pc # "returned")
    /\ [][errlog' # errlog => exited']_vars
    /\ [][~exited]_vars

\* C9: at most one worker is inside the gated section at any time.
C9_GateMutex == Cardinality(InGate) <= 1

\* C9 witness: one worker is inside the gate while another job that wants to
\* enter it has to wait
C9_Witness ==
    \E j1, j2 \in DOMAIN running :
        /\ j1 # j2
        /\ running[j1].st = "crit"
        /\ running[j2].st = "process"
        /\ par_lock = "lock"

\* C10: for both pool kinds, every worker that executes a job has the gate
\* lock installed, so a call of the gate cannot fail for want of a lock.
C10_GateAvailable == Active # {} => par_lock = "lock"

\* C11: the gate lock is held only while critical_section is executing: when
\* a worker's gate call has ended, by returning the value of
\* critical_section or by propagating what it raised, that worker no longer
\* holds the lock.
C11_GateLockReleased == lock_owner # 0 => lock_owner \in InGate

\* a gate call has ended by raising and the lock is free again
C11_Witness == gate_result = "raised" /\ lock_owner = 0

\* C12: a worker limit of 0 means automatic: the effective limit is the
\* host's core count, so run creates its pool and goes on to admit the jobs
\* instead of failing.
C12_ZeroIsAutomatic ==
    (n_jobs_arg = 0 /\ pc # "start") => (n_jobs = CpuCount /\ pc # "raised")

\* C13: for every worker limit, run on an empty job sequence submits no job
\* to the pool, never moves the admission counter away from 0, never sleeps
\* in the admission loop, and returns an empty mapping rather than raising.
C13_EmptySequence ==
    (Len(args_list) = 0 /\ pc # "start") =>
        /\ tasks = << >> /\ cache = {} /\ calls = EmptyBag
        /\ queue = 0
        /\ pc \notin {"sleep", "raised"}
        /\ pc = "returned" => ret = Returned({})

\* C14: a slot stays occupied for the whole execution window: the admission
\* counter is never below the number of admitted jobs whose process call has
\* not yet returned.
C14_SlotHeld == queue >= Cardinality(AwaitingProcess)

\* C15: the submitter sleeps only when the pool is saturated: whenever the
\* admission test sends the submission loop to its sleep branch, exactly
\* n_jobs admitted jobs are in flight at that moment.
C15_SleepOnlySaturated ==
    [][(pc = "test" /\ pc' = "sleep") => Cardinality(InFlight) = n_jobs]_vars

\* C16: jobs are admitted and submitted one at a time in the order of
\* args_list: the k-th job handed to the pool is the job at position k, it
\* is handed over right after its own increment, and the jobs waiting in the
\* pool's queue are in ascending order of position.  Completion order is not
\* constrained.
C16_SubmissionOrder ==
    /\ [][Len(tasks') > Len(tasks) =>
             /\ pc = "submit"
             /\ tasks'[Len(tasks')].job = Len(tasks) + BagCardinality(calls) + 1
          ]_vars
    /\ [](\A a, b \in 1 .. Len(tasks) : a < b => tasks[a].job < tasks[b].job)

\* job 2, submitted after job 1, has completed while job 1 is still executing
C16_Witness == 2 \in resp_dict /\ 1 \in Executing

\* C17: every call of run on the same object starts with an admission counter
\* of 0 and an empty result sink, whatever the earlier call left behind, and
\* the mapping a call returns holds no entry written during an earlier call.
C17_FreshState ==
    /\ [][(pc = "start" /\ pc' # "start") =>
             (queue' = 0 /\ resp_dict' = {})]_vars
    /\ [](pc # "start" => resp_dict \subseteq Positions)
    /\ [](pc = "returned" => ret.map \subseteq Positions)

\* a further call is about to start: the earlier call left a non-zero
\* counter and more sink entries than the new call has jobs
C17_Witness ==
    /\ pc = "start"
    /\ queue # 0
    /\ Cardinality(resp_dict) > Len(args_list)

C20_NoStuckFull ==
    (n_jobs >= 1 /\ queue = n_jobs) =>
        (pc = "submit" \/ InFlight # {} \/ SomeJobRaised)

\* the counter is full although fewer than n_jobs jobs are in flight and no
\* job raised, and the control thread is waiting for it to drop
C20_Witness ==
    /\ n_jobs >= 1
    /\ queue = n_jobs
    /\ pc = "sleep"
    /\ Cardinality(InFlight) < n_jobs
    /\ ~SomeJobRaised

====
